---- MODULE Spec2Model ----
(***************************************************************************)
(* Coherent chapter generation (tools/generate_coherent_chapters.py) with  *)
(* its two collaborators: the AI command-line wrapper (core/ai_client.py)  *)
(* and the embedding store (core/embeddings.py, BookEmbeddings).           *)
(*                                                                         *)
(* Strings are sequences of one-character strings, so that strip(),       *)
(* split(), lower() and replace() are computed rather than assumed.       *)
(***************************************************************************)
EXTENDS Integers, Sequences, FiniteSets, Bags, TLC

\* ------------------------------------------------------------------ bounds
\* The valid chapter numbers given on the command line are 1..MaxChapter.
MaxChapter == 2
\* Number of generate_chapter_with_coherence invocations in one behaviour.
MaxInvocations == 2

\* ------------------------------------------------------------ input domains
Whitespace == {" "}

\* What the CLI may print on standard output: "", " ", "w", " w", "w w".
Replies == {<< >>, <<" ">>, <<"w">>, <<" ", "w">>, <<"w", " ", "w">>}

\* --chapter is any int (type=int); the valid ones are 1..MaxChapter.
ChapterArgs == 1..MaxChapter
\* --title: "A ", "a_" and "b"; "A " and "a_" share a normalised form.
TitleArgs == {<<"A", " ">>, <<"a", "_">>, <<"b">>}
\* --outline: "o".
OutlineArgs == {<<"o">>}
\* Every valid (chapter, title, outline), and one argument list for each
\* way of being invalid: chapter 0 (for the numbers below 1), title "",
\* outline "".
GenerateArgs ==
    (ChapterArgs \X TitleArgs \X OutlineArgs)
    \cup {<<0, <<"b">>, <<"o">>>>, <<1, << >>, <<"o">>>>, <<1, <<"b">>, << >>>>}
\* --provider: argparse admits exactly these two choices.
ProviderArgs == {"claude", "gemini"}

\* ---------------------------------------------------------- str operations
RECURSIVE LStrip(_)
LStrip(s) ==
    IF s = << >> THEN s
    ELSE IF Head(s) \in Whitespace THEN LStrip(Tail(s)) ELSE s

RECURSIVE RStrip(_)
RStrip(s) ==
    IF s = << >> THEN s
    ELSE IF s[Len(s)] \in Whitespace THEN RStrip(SubSeq(s, 1, Len(s) - 1)) ELSE s

\* str.strip()
Strip(s) == RStrip(LStrip(s))

\* len(str.split()): the number of maximal runs of non-whitespace characters.
WordCount(s) ==
    Cardinality({i \in 1..Len(s) :
                    /\ s[i] \notin Whitespace
                    /\ (i = 1 \/ s[i - 1] \in Whitespace)})

\* str.lower() on one character.
Lower(c) == IF c = "A" THEN "a" ELSE IF c = "B" THEN "b" ELSE c

\* chapter_title.lower().replace(' ', '_')
NormalizeTitle(t) ==
    [i \in 1..Len(t) |-> IF Lower(t[i]) = " " THEN "_" ELSE Lower(t[i])]

\* The file name without the chapter's own number.
OutputPathFirstChapter(chapter_num, chapter_title) ==
    <<1, NormalizeTitle(chapter_title)>>

\* outputs/chapters/chapter{num:02d}_{normalised title}.md
OutputPath(chapter_num, chapter_title) ==
    <<chapter_num, NormalizeTitle(chapter_title)>>

\* ------------------------------------------------------------- core/ai_client
\* A Python value that is either None or a str.
NoneValue == [isNone |-> TRUE, text |-> << >>]
StrValue(s) == [isNone |-> FALSE, text |-> s]
\* Python truthiness of such a value: None and "" are falsy.
Truthy(v) == ~v.isNone /\ v.text # << >>

\* How subprocess.run ended.
CliOutcomes ==
    {[kind |-> k, stdout |-> << >>] : k \in {"timeout", "not_found", "nonzero", "os_error"}}
    \cup {[kind |-> "exit0", stdout |-> s] : s \in Replies}

\* call_claude_cli / call_gemini_cli: the stripped stdout on exit status 0,
\* an exception otherwise.
Raised == [raised |-> TRUE, value |-> NoneValue]
Returned(v) == [raised |-> FALSE, value |-> v]

\* call_claude_cli without the strip(): return result.stdout
call_claude_cli_unstripped(cli) ==
    IF cli.kind = "exit0" THEN Returned(StrValue(cli.stdout)) ELSE Raised

call_claude_cli(cli) ==
    IF cli.kind = "exit0" THEN Returned(StrValue(Strip(cli.stdout))) ELSE Raised

call_gemini_cli(cli) ==
    IF cli.kind = "exit0" THEN Returned(StrValue(Strip(cli.stdout))) ELSE Raised

\* call_ai: dispatch on the provider; every exception becomes None.
call_ai(provider, cli) ==
    LET r == IF provider = "claude" THEN call_claude_cli(cli)
             ELSE IF provider = "gemini" THEN call_gemini_cli(cli)
             ELSE Raised
    IN  IF r.raised THEN NoneValue ELSE r.value

\* ------------------------------------------------------ core/embeddings
\* The embedding function reads a fixed-length prefix of the content.
EmbedLimit == 2
\* The largest number of excerpts one context carries.
ContextLimit == 2

Min(a, b) == IF a < b THEN a ELSE b

\* The embedding of a chapter: a deterministic function of the first
\* EmbedLimit characters of its content.
Embed(content) == SubSeq(content, 1, Min(Len(content), EmbedLimit))

\* One record of the collection: chapter number -> (embedding, metadata).
StoreEntry(chapter_num, content, metadata) ==
    [chapter    |-> chapter_num,
     embedding  |-> Embed(content),
     title      |-> metadata.title,
     word_count |-> metadata.word_count]

\* index_chapter on an available store, mis-written as a plain add.
index_chapter_add(st, chapter_num, content, metadata) ==
    st (+) SetToBag({StoreEntry(chapter_num, content, metadata)})

\* index_chapter on an available store: upsert keyed by the chapter number.
index_chapter(st, chapter_num, content, metadata) ==
    LET kept == {e \in DOMAIN st : e.chapter # chapter_num}
    IN  [e \in kept |-> st[e]] (+) SetToBag({StoreEntry(chapter_num, content, metadata)})

\* The records a context for chapter_num may draw on.
Candidates(st, chapter_num) == {e \in BagToSet(st) : e.chapter < chapter_num}

\* The chapter numbers visible to get_chapter_context(chapter_num).
VisibleChapters(st, chapter_num) == {e.chapter : e \in Candidates(st, chapter_num)}

\* What a context shows of one record.
Excerpt(e) ==
    [chapter |-> e.chapter, title |-> e.title,
     word_count |-> e.word_count, lead |-> e.embedding]

\* get_chapter_context: the contexts the store may return.  An unavailable
\* store returns the empty context.  Otherwise the candidates are ranked
\* by a relevance score the store is free to choose (any ranking is the
\* ranking of some score) and the first ContextLimit excerpts are joined.
get_chapter_context(st, collection, chapter_num) ==
    IF ~collection THEN {<< >>}
    ELSE LET cands == Candidates(st, chapter_num)
             k     == Min(ContextLimit, Cardinality(cands))
             ranks == {r \in [1..k -> cands] :
                          \A i, j \in 1..k : i # j => r[i] # r[j]}
         IN  {[i \in 1..k |-> Excerpt(r[i])] : r \in ranks}

\* ------------------------------------- tools/generate_coherent_chapters
VARIABLES
    files,        \* outputs/chapters: output path -> content of the file
    store,        \* the persisted collection: a bag of store entries
    pc,           \* where the running invocation stands ("idle": none runs)
    inv,          \* the locals of the running invocation
    invocations,  \* invocations started so far
    files0,       \* files when the running invocation started
    store0,       \* store when the running invocation started
    indexed,      \* chapter numbers an invocation has indexed so far
    call,         \* one call of a function followed statement by statement
    conc          \* two invocations running at once, and what they did

vars == <<files, store, pc, inv, invocations, files0, store0, indexed, call, conc>>

NoFiles == [p \in {} |-> << >>]

NoPrompt ==
    [chapter_num |-> 0, chapter_title |-> << >>, outline |-> << >>,
     label |-> FALSE, context |-> << >>]

\* The locals before the first statement has run.
NewInvocation(chapter_num, chapter_title, outline, provider) ==
    [chapter_num     |-> chapter_num,
     chapter_title   |-> chapter_title,
     outline         |-> outline,
     provider        |-> provider,
     collection      |-> FALSE,
     context         |-> << >>,
     prompt          |-> NoPrompt,
     chapter_content |-> NoneValue,
     word_count      |-> 0,
     ai_called       |-> FALSE,
     saved           |-> "no",
     indexing        |-> "no",
     result          |-> "pending"]

NoInvocation == NewInvocation(0, << >>, << >>, "claude")

\* No call_ai call is being followed.
NoCall ==
    [provider |-> "claude", cli |-> [kind |-> "timeout", stdout |-> << >>],
     pc |-> "idle", fn |-> "none", raised |-> FALSE, out |-> NoneValue]

\* No two invocations are running at once.
NoConc == [procs |-> << >>, log |-> << >>, store0 |-> EmptyBag]

Init ==
    /\ files = NoFiles
    /\ store = EmptyBag
    /\ pc = "idle"
    /\ inv = NoInvocation
    /\ invocations = 0
    /\ files0 = NoFiles
    /\ store0 = EmptyBag
    /\ indexed = {}
    /\ call = NoCall
    /\ conc = NoConc

\* The function is entered with its four arguments (book_dir is fixed).
Invoke(chapter_num, chapter_title, outline, provider) ==
    /\ pc = "idle"
    /\ invocations < MaxInvocations
    /\ invocations' = invocations + 1
    /\ inv' = NewInvocation(chapter_num, chapter_title, outline, provider)
    /\ pc' = "init_embeddings"
    /\ files0' = files
    /\ store0' = store
    /\ UNCHANGED <<call, conc, files, store, indexed>>

\* embeddings = BookEmbeddings(book_dir): the collection is opened, or is
\* None when the embedding backend is unavailable.
InitEmbeddings(available) ==
    /\ pc = "init_embeddings"
    /\ inv' = [inv EXCEPT !.collection = available]
    /\ pc' = "get_context"
    /\ UNCHANGED <<call, conc, files, store, invocations, files0, store0, indexed>>

\* if chapter_num > 1
WantsContextFromOne(chapter_num) == chapter_num >= 1
WantsContext(chapter_num) == chapter_num > 1

\* the argument of embeddings.get_chapter_context(chapter_num)
ContextArgNext(chapter_num) == chapter_num + 1
ContextArg(chapter_num) == chapter_num

\* GetContext, mis-written to give up when the collection is missing.
GetContextOrAbort ==
    /\ pc = "get_context"
    /\ IF WantsContext(inv.chapter_num) /\ ~inv.collection
       THEN /\ inv' = [inv EXCEPT !.result = "none"]
            /\ pc' = "done"
       ELSE /\ \E ctx \in get_chapter_context(store, inv.collection,
                                               ContextArg(inv.chapter_num)) :
                   inv' = [inv EXCEPT !.context =
                              IF WantsContext(inv.chapter_num) THEN ctx ELSE << >>]
            /\ pc' = "build_prompt"
    /\ UNCHANGED <<call, conc, files, store, invocations, files0, store0, indexed>>

\* GetContext, mis-written to refuse a chapter whose predecessor is not
\* in the store.
GetContextInOrder ==
    /\ pc = "get_context"
    /\ IF /\ WantsContext(inv.chapter_num)
          /\ inv.collection
          /\ (inv.chapter_num - 1) \notin VisibleChapters(store, inv.chapter_num)
       THEN /\ inv' = [inv EXCEPT !.result = "none"]
            /\ pc' = "done"
       ELSE /\ \E ctx \in get_chapter_context(store, inv.collection,
                                               ContextArg(inv.chapter_num)) :
                   inv' = [inv EXCEPT !.context =
                              IF WantsContext(inv.chapter_num) THEN ctx ELSE << >>]
            /\ pc' = "build_prompt"
    /\ UNCHANGED <<call, conc, files, store, invocations, files0, store0, indexed>>

\* context = "" ; if chapter_num > 1: context = get_chapter_context(...)
GetContext ==
    /\ pc = "get_context"
    /\ IF WantsContext(inv.chapter_num)
       THEN \E ctx \in get_chapter_context(store, inv.collection,
                                           ContextArg(inv.chapter_num)) :
                inv' = [inv EXCEPT !.context = ctx]
       ELSE inv' = [inv EXCEPT !.context = << >>]
    /\ pc' = "build_prompt"
    /\ UNCHANGED <<call, conc, files, store, invocations, files0, store0, indexed>>

\* The f-string with the label line written unconditionally.
BuildPromptTextLabelled(chapter_num, chapter_title, outline, context) ==
    [chapter_num   |-> chapter_num,
     chapter_title |-> chapter_title,
     outline       |-> outline,
     label         |-> TRUE,
     context       |-> context]

\* The f-string: number, title and outline always; the label line and the
\* context only when the context is a non-empty string.
BuildPromptText(chapter_num, chapter_title, outline, context) ==
    [chapter_num   |-> chapter_num,
     chapter_title |-> chapter_title,
     outline       |-> outline,
     label         |-> context # << >>,
     context       |-> IF context # << >> THEN context ELSE << >>]

BuildPrompt ==
    /\ pc = "build_prompt"
    /\ inv' = [inv EXCEPT !.prompt =
                  BuildPromptText(inv.chapter_num, inv.chapter_title,
                                  inv.outline, inv.context)]
    /\ pc' = "call_ai"
    /\ UNCHANGED <<call, conc, files, store, invocations, files0, store0, indexed>>

\* if not chapter_content
GenerationFailedIfNone(chapter_content) == chapter_content.isNone
GenerationFailed(chapter_content) == ~Truthy(chapter_content)

\* chapter_content = call_ai(...); if not chapter_content: return None
CallAI(cli) ==
    /\ pc = "call_ai"
    /\ LET chapter_content == call_ai(inv.provider, cli)
       IN  IF GenerationFailed(chapter_content)
           THEN /\ inv' = [inv EXCEPT !.chapter_content = chapter_content,
                                      !.ai_called = TRUE,
                                      !.result = "none"]
                /\ pc' = "done"
           ELSE /\ inv' = [inv EXCEPT !.chapter_content = chapter_content,
                                      !.ai_called = TRUE]
                /\ pc' = "save_chapter"
    /\ UNCHANGED <<call, conc, files, store, invocations, files0, store0, indexed>>

\* How mkdir / open(path, 'w') / f.write end: "written"; "open_failed" (mkdir
\* or open raised, nothing on disk changed); "write_failed" (open truncated
\* the file, then write or the closing flush raised).
SaveOutcomes == {"written", "open_failed", "write_failed"}

\* WriteFile with the file opened in mode 'a'.
WriteFileAppend(fs, path, content) ==
    [p \in DOMAIN fs \cup {path} |->
        IF p = path THEN (IF path \in DOMAIN fs THEN fs[path] \o content ELSE content)
        ELSE fs[p]]

\* open(output_path, 'w') and f.write(content): the file holds content.
WriteFile(fs, path, content) ==
    [p \in DOMAIN fs \cup {path} |-> IF p = path THEN content ELSE fs[p]]

\* SaveChapter with a handler that swallows the error of mkdir or open.
SaveChapterSwallow(outcome) ==
    /\ pc = "save_chapter"
    /\ LET path == OutputPath(inv.chapter_num, inv.chapter_title)
           text == inv.chapter_content.text
       IN  IF outcome = "written"
           THEN /\ files' = WriteFile(files, path, text)
                /\ inv' = [inv EXCEPT !.saved = outcome,
                                      !.word_count = WordCount(text)]
                /\ pc' = "index_chapter"
           ELSE IF outcome = "open_failed"
           THEN /\ files' = files
                /\ inv' = [inv EXCEPT !.saved = outcome,
                                      !.word_count = WordCount(text)]
                /\ pc' = "index_chapter"
           ELSE /\ \E partial \in 0..(Len(text) - 1) :
                       files' = WriteFile(files, path, SubSeq(text, 1, partial))
                /\ inv' = [inv EXCEPT !.saved = outcome, !.result = "raised"]
                /\ pc' = "done"
    /\ UNCHANGED <<call, conc, store, invocations, files0, store0, indexed>>

\* with open(output_path, 'w') as f: f.write(chapter_content); word_count
SaveChapter(outcome) ==
    /\ pc = "save_chapter"
    /\ LET path == OutputPath(inv.chapter_num, inv.chapter_title)
           text == inv.chapter_content.text
       IN  IF outcome = "written"
           THEN /\ files' = WriteFile(files, path, text)
                /\ inv' = [inv EXCEPT !.saved = outcome,
                                      !.word_count = WordCount(text)]
                /\ pc' = "index_chapter"
           ELSE IF outcome = "open_failed"
           THEN /\ files' = files
                /\ inv' = [inv EXCEPT !.saved = outcome, !.result = "raised"]
                /\ pc' = "done"
           ELSE /\ \E partial \in 0..(Len(text) - 1) :
                       files' = WriteFile(files, path, SubSeq(text, 1, partial))
                /\ inv' = [inv EXCEPT !.saved = outcome, !.result = "raised"]
                /\ pc' = "done"
    /\ UNCHANGED <<call, conc, store, invocations, files0, store0, indexed>>

\* if embeddings.collection
IndexGuard(collection) == collection

\* chapter_num=chapter_num, zero-based by mistake
IndexKeyZeroBased(chapter_num) == chapter_num - 1
\* every chapter under the key of the first
IndexKeyFirst(chapter_num) == 1
\* chapter_num=chapter_num
IndexKey(chapter_num) == chapter_num

\* The metadata without the computed word count.
IndexMetadataNoCount(chapter_title, word_count) ==
    [title |-> chapter_title, word_count |-> 0]

\* metadata={"title": chapter_title, "word_count": word_count}
IndexMetadata(chapter_title, word_count) ==
    [title |-> chapter_title, word_count |-> word_count]

\* How embeddings.index_chapter ends on an available store.
IndexOutcomes == {"indexed", "failed"}

\* if embeddings.collection: embeddings.index_chapter(...); return content
IndexChapter(outcome) ==
    /\ pc = "index_chapter"
    /\ IF IndexGuard(inv.collection)
       THEN IF outcome = "indexed"
            THEN /\ store' = index_chapter(store, IndexKey(inv.chapter_num),
                                 inv.chapter_content.text,
                                 IndexMetadata(inv.chapter_title, inv.word_count))
                 /\ indexed' = indexed \cup {inv.chapter_num}
                 /\ inv' = [inv EXCEPT !.indexing = outcome, !.result = "content"]
            ELSE /\ store' = store
                 /\ indexed' = indexed
                 /\ inv' = [inv EXCEPT !.indexing = outcome, !.result = "raised"]
       ELSE /\ outcome = "indexed"
            /\ store' = store
            /\ indexed' = indexed
            /\ inv' = [inv EXCEPT !.indexing = "skipped", !.result = "content"]
    /\ pc' = "done"
    /\ UNCHANGED <<call, conc, files, invocations, files0, store0>>

\* The invocation is over: its process exits and the next may start.
Return ==
    /\ pc = "done"
    /\ pc' = "idle"
    /\ inv' = NoInvocation
    /\ files0' = files
    /\ store0' = store
    /\ UNCHANGED <<call, conc, files, store, invocations, indexed>>

Next ==
    \/ \E a \in GenerateArgs, p \in ProviderArgs : Invoke(a[1], a[2], a[3], p)
    \/ \E available \in BOOLEAN : InitEmbeddings(available)
    \/ GetContext
    \/ BuildPrompt
    \/ \E cli \in CliOutcomes : CallAI(cli)
    \/ \E outcome \in SaveOutcomes : SaveChapter(outcome)
    \/ \E outcome \in IndexOutcomes : IndexChapter(outcome)
    \/ Return

Spec == Init /\ [][Next]_vars

\* ------------------------------------------------- call_ai, step by step
\* provider is any str: the two known names, another name and "".
ProviderValues == ProviderArgs \cup {"openai", ""}

\* Standard outputs with leading and trailing whitespace to strip.
AiReplies ==
    Replies \cup {<<"w", " ">>, <<" ", "w", " ">>, <<" ", " ">>}

AiCliOutcomes ==
    CliOutcomes \cup {[kind |-> "exit0", stdout |-> s] : s \in AiReplies}

\* call_ai(prompt, provider) has been called; cli is how the CLI process
\* will end if it is run.
AiInit ==
    /\ files = NoFiles
    /\ store = EmptyBag
    /\ pc = "idle"
    /\ inv = NoInvocation
    /\ invocations = 0
    /\ files0 = NoFiles
    /\ store0 = EmptyBag
    /\ indexed = {}
    /\ conc = NoConc
    /\ \E provider \in ProviderValues, cli \in AiCliOutcomes :
          call = [NoCall EXCEPT !.provider = provider, !.cli = cli, !.pc = "try"]

\* if provider == "claude" ... elif provider == "gemini" ... else: raise
AiDispatch ==
    /\ call.pc = "try"
    /\ call' = IF call.provider = "claude"
               THEN [call EXCEPT !.pc = "in_cli", !.fn = "call_claude_cli"]
               ELSE IF call.provider = "gemini"
               THEN [call EXCEPT !.pc = "in_cli", !.fn = "call_gemini_cli"]
               ELSE [call EXCEPT !.pc = "except", !.fn = "ValueError"]
    /\ UNCHANGED <<files, store, pc, inv, invocations, files0, store0, indexed, conc>>

\* return call_claude_cli(prompt) / return call_gemini_cli(prompt)
AiRunCli ==
    /\ call.pc = "in_cli"
    /\ LET r == IF call.fn = "call_claude_cli" THEN call_claude_cli(call.cli)
                ELSE call_gemini_cli(call.cli)
       IN  call' = IF r.raised
                   THEN [call EXCEPT !.pc = "except"]
                   ELSE [call EXCEPT !.pc = "returned", !.out = r.value]
    /\ UNCHANGED <<files, store, pc, inv, invocations, files0, store0, indexed, conc>>

\* except Exception as e: print(...); return None
AiExcept ==
    /\ call.pc = "except"
    /\ call' = [call EXCEPT !.pc = "returned", !.out = NoneValue, !.raised = FALSE]
    /\ UNCHANGED <<files, store, pc, inv, invocations, files0, store0, indexed, conc>>

AiNext ==
    \/ AiDispatch
    \/ AiRunCli
    \/ AiExcept

AiSpec == AiInit /\ [][AiNext]_vars

\* ------------------------------------ agents/agent1_research: synthesis
\* The most papers search_papers hands to synthesize_with_ai.
MaxPapers == 2
\* create_basic_summary lists papers[:20].
SummaryTop == 20

\* A paper as search_arxiv builds it: title, authors, published, source.
Paper(i) == [title |-> <<"t", ToString(i)>>, source |-> "arXiv"]
PaperLists == {[i \in 1..n |-> Paper(i)] : n \in 0..MaxPapers}

\* "No papers found to synthesize."
NoPapersText == <<"No papers found to synthesize.">>

\* create_basic_summary: the heading, the count, and one item for each of
\* the first SummaryTop papers.
create_basic_summary(papers) ==
    <<"# Research Summary", "Found", ToString(Len(papers)), "## Papers:">>
    \o [i \in 1..Min(Len(papers), SummaryTop) |-> papers[i].title]

\* if response: ... else: (try the next), mis-written as "is not None"
SynthGivesUpOnIfNone(response) == response.isNone
\* if response: ... else: (try the next)
SynthGivesUpOn(response) == ~Truthy(response)

\* synthesize_with_ai(papers, query) has been called; claude and gemini are
\* how each CLI process will end if it is run.
SynthInit ==
    /\ files = NoFiles
    /\ store = EmptyBag
    /\ pc = "idle"
    /\ inv = NoInvocation
    /\ invocations = 0
    /\ files0 = NoFiles
    /\ store0 = EmptyBag
    /\ indexed = {}
    /\ conc = NoConc
    /\ \E papers \in PaperLists, claude \in CliOutcomes, gemini \in CliOutcomes :
          call = [fn |-> "synthesize_with_ai", papers |-> papers,
                  claude |-> claude, gemini |-> gemini,
                  pc |-> "check_papers", calls |-> << >>,
                  via |-> "none", out |-> NoneValue]

\* if not papers: return "No papers found to synthesize."
SynthCheckPapers ==
    /\ call.fn = "synthesize_with_ai"
    /\ call.pc = "check_papers"
    /\ call' = IF call.papers = << >>
               THEN [call EXCEPT !.pc = "returned", !.via = "no_papers",
                                 !.out = StrValue(NoPapersText)]
               ELSE [call EXCEPT !.pc = "call_claude"]
    /\ UNCHANGED <<files, store, pc, inv, invocations, files0, store0, indexed, conc>>

\* response = call_ai(prompt, provider="claude", ...); if response: return
SynthCallClaude ==
    /\ call.fn = "synthesize_with_ai"
    /\ call.pc = "call_claude"
    /\ LET response == call_ai("claude", call.claude)
       IN  call' = IF SynthGivesUpOn(response)
                   THEN [call EXCEPT !.pc = "call_gemini",
                                     !.calls = Append(@, "claude")]
                   ELSE [call EXCEPT !.pc = "returned", !.via = "claude",
                                     !.calls = Append(@, "claude"),
                                     !.out = response]
    /\ UNCHANGED <<files, store, pc, inv, invocations, files0, store0, indexed, conc>>

\* response = call_ai(prompt, provider="gemini"); if response: return
SynthCallGemini ==
    /\ call.fn = "synthesize_with_ai"
    /\ call.pc = "call_gemini"
    /\ LET response == call_ai("gemini", call.gemini)
       IN  call' = IF SynthGivesUpOn(response)
                   THEN [call EXCEPT !.pc = "basic_summary",
                                     !.calls = Append(@, "gemini")]
                   ELSE [call EXCEPT !.pc = "returned", !.via = "gemini",
                                     !.calls = Append(@, "gemini"),
                                     !.out = response]
    /\ UNCHANGED <<files, store, pc, inv, invocations, files0, store0, indexed, conc>>

\* return create_basic_summary(papers)
SynthBasicSummary ==
    /\ call.fn = "synthesize_with_ai"
    /\ call.pc = "basic_summary"
    /\ call' = [call EXCEPT !.pc = "returned", !.via = "basic",
                            !.out = StrValue(create_basic_summary(call.papers))]
    /\ UNCHANGED <<files, store, pc, inv, invocations, files0, store0, indexed, conc>>

SynthNext ==
    \/ SynthCheckPapers
    \/ SynthCallClaude
    \/ SynthCallGemini
    \/ SynthBasicSummary

SynthSpec == SynthInit /\ [][SynthNext]_vars

\* --------------------------------------------- str.find, slices, values
\* str.find(sub, start): the lowest 0-based index >= start at which sub
\* occurs in s, or -1.
PyFind(s, sub, start) ==
    LET hits == {i \in start..(Len(s) - Len(sub)) :
                    SubSeq(s, i + 1, i + Len(sub)) = sub}
    IN  IF hits = {} THEN -1
        ELSE CHOOSE i \in hits : \A j \in hits : i <= j

\* sub in s
PyContains(s, sub) == PyFind(s, sub, 0) # -1

\* s[a:b] for a >= 0; a negative b counts from the end.
PySlice(s, a, b) ==
    LET hi == IF b < 0 THEN (IF Len(s) + b < 0 THEN 0 ELSE Len(s) + b)
              ELSE Min(b, Len(s))
    IN  SubSeq(s, a + 1, hi)

\* The backquote character, written "~" here, and the three of a fence.
Backquote == "~"
Fence == <<Backquote, Backquote, Backquote>>

\* Python values: None, a str, an int, a list, a dict (keys to values).
PyNone == [type |-> "NoneType", text |-> << >>, items |-> << >>]
PyStr(t) == [type |-> "str", text |-> t, items |-> << >>]
PyInt(t) == [type |-> "int", text |-> t, items |-> << >>]
PyList == [type |-> "list", text |-> << >>, items |-> << >>]
PyDict(items) == [type |-> "dict", text |-> << >>, items |-> items]
EmptyItems == [k \in {} |-> << >>]

\* The outcome of a call that returns a Python value or raises.
PyRaised == [raised |-> TRUE, value |-> PyNone]
PyReturned(v) == [raised |-> FALSE, value |-> v]

\* d[key] = text: TypeError unless d is a dict.
SetItem(d, key, text) ==
    IF d.type = "dict"
    THEN PyReturned(PyDict([k \in DOMAIN d.items \cup {key} |->
                               IF k = key THEN text ELSE d.items[k]]))
    ELSE PyRaised

\* ------------------------------- agents/agent2_experiment: the design
YamlTag == <<"y", "a", "m", "l">>
\* ai_response.find(fence + "yaml") + 7
YamlFenceLen == 7

\* What a CLI may print for the design: nothing, plain text, and fenced
\* YAML blocks holding a mapping, a list, nothing, a broken flow mapping
\* and a plain scalar; one block with words around it, one never closed.
ExpReplies ==
    {<< >>, <<"w">>,
     Fence \o YamlTag \o <<"{", "}">> \o Fence,
     Fence \o YamlTag \o <<"[", "]">> \o Fence,
     Fence \o YamlTag \o Fence,
     Fence \o YamlTag \o <<"{">> \o Fence,
     Fence \o YamlTag \o <<" ", "w">> \o Fence,
     <<"w", " ">> \o Fence \o YamlTag \o <<"{", "}">> \o Fence \o <<" ", "w">>,
     Fence \o YamlTag \o <<"{", "}">>}

ExpCliOutcomes ==
    {[kind |-> k, stdout |-> << >>] : k \in {"timeout", "not_found", "nonzero", "os_error"}}
    \cup {[kind |-> "exit0", stdout |-> r] : r \in ExpReplies}

\* yaml.safe_load on these texts: the empty document is None, "{}" a
\* mapping, "[]" a list; an unclosed flow collection and a leading
\* backquote are errors; any other text is a plain scalar, a str.
yaml_safe_load(text) ==
    LET t == Strip(text)
    IN  IF t = << >> THEN PyReturned(PyNone)
        ELSE IF t = <<"{", "}">> THEN PyReturned(PyDict(EmptyItems))
        ELSE IF t = <<"[", "]">> THEN PyReturned(PyList)
        ELSE IF t[1] \in {"{", "[", Backquote} THEN PyRaised
        ELSE PyReturned(PyStr(t))

\* create_template_design(hypothesis, participants, duration)
create_template_design ==
    PyDict([k \in {"hypothesis", "design_type", "null_hypothesis"} |->
               IF k = "hypothesis" THEN <<"h">>
               ELSE IF k = "design_type" THEN <<"A/B Test">>
               ELSE <<"There is no difference between control and treatment groups">>])

\* The YAML extraction with the result of safe_load used only if a dict.
ExtractDesignChecked(ai_response) ==
    IF PyContains(ai_response, Fence \o YamlTag)
    THEN LET yaml_start   == PyFind(ai_response, Fence \o YamlTag, 0) + YamlFenceLen
             yaml_end     == PyFind(ai_response, Fence, yaml_start)
             yaml_content == Strip(PySlice(ai_response, yaml_start, yaml_end))
             loaded       == yaml_safe_load(yaml_content)
         IN  IF loaded.raised \/ loaded.value.type # "dict"
             THEN PyDict([k \in {"full_text"} |-> ai_response])
             ELSE loaded.value
    ELSE PyDict([k \in {"full_text"} |-> ai_response])

\* if (fence + "yaml") in ai_response: ... design = yaml.safe_load(yaml_content),
\* or {"full_text": ai_response} when safe_load raises or no block is found.
ExtractDesign(ai_response) ==
    IF PyContains(ai_response, Fence \o YamlTag)
    THEN LET yaml_start   == PyFind(ai_response, Fence \o YamlTag, 0) + YamlFenceLen
             yaml_end     == PyFind(ai_response, Fence, yaml_start)
             yaml_content == Strip(PySlice(ai_response, yaml_start, yaml_end))
             loaded       == yaml_safe_load(yaml_content)
         IN  IF loaded.raised
             THEN PyDict([k \in {"full_text"} |-> ai_response])
             ELSE loaded.value
    ELSE PyDict([k \in {"full_text"} |-> ai_response])

\* generate_experiment_design has been called; claude and gemini are how
\* each CLI process will end if it is run.
ExpInit ==
    /\ files = NoFiles
    /\ store = EmptyBag
    /\ pc = "idle"
    /\ inv = NoInvocation
    /\ invocations = 0
    /\ files0 = NoFiles
    /\ store0 = EmptyBag
    /\ indexed = {}
    /\ conc = NoConc
    /\ \E claude \in ExpCliOutcomes, gemini \in ExpCliOutcomes :
          call = [fn |-> "generate_experiment_design",
                  claude |-> claude, gemini |-> gemini,
                  pc |-> "call_claude", calls |-> << >>,
                  ai_response |-> NoneValue, design |-> PyNone,
                  via |-> "none", raised |-> FALSE, out |-> PyNone]

\* ai_response = call_ai(prompt, provider="claude", max_tokens=4000)
ExpCallClaude ==
    /\ call.fn = "generate_experiment_design"
    /\ call.pc = "call_claude"
    /\ LET ai_response == call_ai("claude", call.claude)
       IN  call' = [call EXCEPT !.ai_response = ai_response,
                                !.calls = Append(@, "claude"),
                                !.pc = IF ~Truthy(ai_response)
                                       THEN "call_gemini" ELSE "check_response"]
    /\ UNCHANGED <<files, store, pc, inv, invocations, files0, store0, indexed, conc>>

\* if not ai_response: ai_response = call_ai(prompt, provider="gemini")
ExpCallGemini ==
    /\ call.fn = "generate_experiment_design"
    /\ call.pc = "call_gemini"
    /\ call' = [call EXCEPT !.ai_response = call_ai("gemini", call.gemini),
                            !.calls = Append(@, "gemini"),
                            !.pc = "check_response"]
    /\ UNCHANGED <<files, store, pc, inv, invocations, files0, store0, indexed, conc>>

\* if not ai_response: return create_template_design(...)
ExpCheckResponse ==
    /\ call.fn = "generate_experiment_design"
    /\ call.pc = "check_response"
    /\ call' = IF ~Truthy(call.ai_response)
               THEN [call EXCEPT !.pc = "returned", !.via = "template",
                                 !.out = create_template_design]
               ELSE [call EXCEPT !.pc = "extract"]
    /\ UNCHANGED <<files, store, pc, inv, invocations, files0, store0, indexed, conc>>

\* the YAML extraction, lines 131-140
ExpExtract ==
    /\ call.fn = "generate_experiment_design"
    /\ call.pc = "extract"
    /\ call' = [call EXCEPT !.design = ExtractDesign(call.ai_response.text),
                            !.pc = "set_raw_response"]
    /\ UNCHANGED <<files, store, pc, inv, invocations, files0, store0, indexed, conc>>

\* design['raw_response'] = ai_response; return design
ExpSetRawResponse ==
    /\ call.fn = "generate_experiment_design"
    /\ call.pc = "set_raw_response"
    /\ LET r == SetItem(call.design, "raw_response", call.ai_response.text)
       IN  call' = IF r.raised
                   THEN [call EXCEPT !.pc = "except"]
                   ELSE [call EXCEPT !.pc = "returned", !.via = "design",
                                     !.design = r.value, !.out = r.value]
    /\ UNCHANGED <<files, store, pc, inv, invocations, files0, store0, indexed, conc>>

\* except Exception as e: return create_template_design(...)
ExpExcept ==
    /\ call.fn = "generate_experiment_design"
    /\ call.pc = "except"
    /\ call' = [call EXCEPT !.pc = "returned", !.via = "template_after_error",
                            !.out = create_template_design]
    /\ UNCHANGED <<files, store, pc, inv, invocations, files0, store0, indexed, conc>>

ExpNext ==
    \/ ExpCallClaude
    \/ ExpCallGemini
    \/ ExpCheckResponse
    \/ ExpExtract
    \/ ExpSetRawResponse
    \/ ExpExcept

ExpSpec == ExpInit /\ [][ExpNext]_vars

\* ------------------------------------------- core/ai_client: call_ai_json
JsonTag == <<"j", "s", "o", "n">>
\* response.find(fence + "json") + 7
JsonFenceLen == 7
\* response.find(fence) + 3
FenceLen == 3

\* What the CLI may print for a JSON request: nothing, an object, an array,
\* a number, a word; and fenced blocks, tagged json or not, closed or not,
\* with or without text around them.
JsonReplies ==
    {<< >>, <<"{", "}">>, <<"[", "]">>, <<"1">>, <<"w">>,
     Fence \o JsonTag \o <<" ", "{", "}", " ">> \o Fence,
     Fence \o JsonTag \o <<"[", "]">> \o Fence,
     <<"w", " ">> \o Fence \o JsonTag \o <<"{", "}">> \o Fence \o <<" ", "w">>,
     Fence \o <<"{", "}">> \o Fence,
     Fence \o <<"w">> \o Fence,
     Fence \o JsonTag \o <<"{", "}">>}

JsonCliOutcomes ==
    {[kind |-> k, stdout |-> << >>] : k \in {"timeout", "not_found", "nonzero", "os_error"}}
    \cup {[kind |-> "exit0", stdout |-> r] : r \in JsonReplies}

\* json.loads on these texts: "{}" is an empty dict, "[]" a list, "1" an
\* int, whitespace around the value is skipped; anything else is a
\* JSONDecodeError.
json_loads(text) ==
    LET t == Strip(text)
    IN  IF t = <<"{", "}">> THEN PyReturned(PyDict(EmptyItems))
        ELSE IF t = <<"[", "]">> THEN PyReturned(PyList)
        ELSE IF t = <<"1">> THEN PyReturned(PyInt(t))
        ELSE PyRaised

\* The extraction with the json tag left in the text: find(...) + 3.
ExtractJsonKeepTag(response) ==
    IF PyContains(response, Fence \o JsonTag)
    THEN LET start == PyFind(response, Fence \o JsonTag, 0) + FenceLen
             end   == PyFind(response, Fence, start)
         IN  Strip(PySlice(response, start, end))
    ELSE IF PyContains(response, Fence)
    THEN LET start == PyFind(response, Fence, 0) + FenceLen
             end   == PyFind(response, Fence, start)
         IN  Strip(PySlice(response, start, end))
    ELSE response

\* if (fence + "json") in response: ... elif fence in response: ...
ExtractJson(response) ==
    IF PyContains(response, Fence \o JsonTag)
    THEN LET start == PyFind(response, Fence \o JsonTag, 0) + JsonFenceLen
             end   == PyFind(response, Fence, start)
         IN  Strip(PySlice(response, start, end))
    ELSE IF PyContains(response, Fence)
    THEN LET start == PyFind(response, Fence, 0) + FenceLen
             end   == PyFind(response, Fence, start)
         IN  Strip(PySlice(response, start, end))
    ELSE response

\* call_ai_json(prompt, provider) has been called; cli is how the CLI
\* process will end if it is run.
JsonInit ==
    /\ files = NoFiles
    /\ store = EmptyBag
    /\ pc = "idle"
    /\ inv = NoInvocation
    /\ invocations = 0
    /\ files0 = NoFiles
    /\ store0 = EmptyBag
    /\ indexed = {}
    /\ conc = NoConc
    /\ \E provider \in ProviderValues, cli \in JsonCliOutcomes :
          call = [fn |-> "call_ai_json", provider |-> provider, cli |-> cli,
                  pc |-> "call_ai", reply |-> NoneValue, response |-> << >>,
                  via |-> "none", raised |-> FALSE, out |-> PyNone]

\* response = call_ai(json_prompt, provider=provider)
JsonCallAi ==
    /\ call.fn = "call_ai_json"
    /\ call.pc = "call_ai"
    /\ call' = [call EXCEPT !.reply = call_ai(call.provider, call.cli),
                            !.pc = "check_response"]
    /\ UNCHANGED <<files, store, pc, inv, invocations, files0, store0, indexed, conc>>

\* if not response: return {}
JsonCheckResponse ==
    /\ call.fn = "call_ai_json"
    /\ call.pc = "check_response"
    /\ call' = IF ~Truthy(call.reply)
               THEN [call EXCEPT !.pc = "returned", !.via = "no_response",
                                 !.out = PyDict(EmptyItems)]
               ELSE [call EXCEPT !.pc = "extract", !.response = call.reply.text]
    /\ UNCHANGED <<files, store, pc, inv, invocations, files0, store0, indexed, conc>>

\* the markdown extraction, lines 112-120
JsonExtract ==
    /\ call.fn = "call_ai_json"
    /\ call.pc = "extract"
    /\ call' = [call EXCEPT !.response = ExtractJson(call.response),
                            !.pc = "loads"]
    /\ UNCHANGED <<files, store, pc, inv, invocations, files0, store0, indexed, conc>>

\* try: return json.loads(response)
\* except json.JSONDecodeError: return {"raw_response": response}
JsonLoads ==
    /\ call.fn = "call_ai_json"
    /\ call.pc = "loads"
    /\ LET r == json_loads(call.response)
       IN  call' = IF r.raised
                   THEN [call EXCEPT !.pc = "returned", !.via = "raw_response",
                            !.out = PyDict([k \in {"raw_response"} |-> call.response])]
                   ELSE [call EXCEPT !.pc = "returned", !.via = "parsed",
                                     !.out = r.value]
    /\ UNCHANGED <<files, store, pc, inv, invocations, files0, store0, indexed, conc>>

JsonNext ==
    \/ JsonCallAi
    \/ JsonCheckResponse
    \/ JsonExtract
    \/ JsonLoads

JsonSpec == JsonInit /\ [][JsonNext]_vars

\* ------------------------------- agents/agent1_research: search_papers
\* --limit is 0..MaxLimit; --databases names up to MaxDatabases choices.
MaxLimit == 4
MaxDatabases == 3

\* choices=['arxiv', 'scholar', 'pubmed', 'acm']
DatabaseChoices == {"arxiv", "scholar", "pubmed", "acm"}

\* The lists --databases can give (nargs='+': a choice may be repeated), and
\* the empty list a direct caller can pass.
DatabaseLists ==
    UNION {[1..n -> DatabaseChoices] : n \in 0..MaxDatabases}

\* the whole limit for every database
PerDatabaseLimitWhole(limit, databases) == limit
\* limit // len(databases)
PerDatabaseLimit(limit, databases) == limit \div Len(databases)

\* 'arxiv' in databases
Selected(db, databases) == \E i \in 1..Len(databases) : databases[i] = db

\* search_papers(query, databases, limit) has been called.
SearchInit ==
    /\ files = NoFiles
    /\ store = EmptyBag
    /\ pc = "idle"
    /\ inv = NoInvocation
    /\ invocations = 0
    /\ files0 = NoFiles
    /\ store0 = EmptyBag
    /\ indexed = {}
    /\ conc = NoConc
    /\ \E limit \in 0..MaxLimit, databases \in DatabaseLists :
          call = [fn |-> "search_papers", limit |-> limit, databases |-> databases,
                  pc |-> "arxiv", queried |-> << >>, papers |-> 0,
                  raised |-> FALSE]

\* One "if db in databases: papers.extend(search_db(query, limit // len))"
\* with found papers coming back; a zero divisor raises ZeroDivisionError.
SearchStep(db, next, found) ==
    /\ call.fn = "search_papers"
    /\ call.pc = db
    /\ IF Selected(db, call.databases)
       THEN IF Len(call.databases) = 0
            THEN /\ found = 0
                 /\ call' = [call EXCEPT !.pc = "returned", !.raised = TRUE]
            ELSE LET per == PerDatabaseLimit(call.limit, call.databases)
                 IN  /\ found <= per
                     /\ call' = [call EXCEPT !.pc = next,
                                             !.queried = Append(@, <<db, per>>),
                                             !.papers = @ + found]
       ELSE /\ found = 0
            /\ call' = [call EXCEPT !.pc = next]
    /\ UNCHANGED <<files, store, pc, inv, invocations, files0, store0, indexed, conc>>

\* search_arxiv returns at most max_results papers, none on an error.
SearchArxiv == \E found \in 0..MaxLimit : SearchStep("arxiv", "scholar", found)

\* search_scholar returns [].
SearchScholar == SearchStep("scholar", "acm", 0)

\* search_acm returns [].
SearchAcm == SearchStep("acm", "returned", 0)

SearchNext ==
    \/ SearchArxiv
    \/ SearchScholar
    \/ SearchAcm

SearchSpec == SearchInit /\ [][SearchNext]_vars

\* ---------------------------------- agents/agent4_validator: validation
\* absolutes = ["always", "never", "all ", "none ", "every ", "impossible"]
Absolutes ==
    << <<"a", "l", "w", "a", "y", "s">>,
       <<"n", "e", "v", "e", "r">>,
       <<"a", "l", "l", " ">>,
       <<"n", "o", "n", "e", " ">>,
       <<"e", "v", "e", "r", "y", " ">>,
       <<"i", "m", "p", "o", "s", "s", "i", "b", "l", "e">> >>

\* weasels = ["might", "possibly", "arguably", "perhaps", "maybe"]
Weasels ==
    << <<"m", "i", "g", "h", "t">>,
       <<"p", "o", "s", "s", "i", "b", "l", "y">>,
       <<"a", "r", "g", "u", "a", "b", "l", "y">>,
       <<"p", "e", "r", "h", "a", "p", "s">>,
       <<"m", "a", "y", "b", "e">> >>

\* if count > 5
WeaselLimit == 5

\* s * n
RECURSIVE Repeat(_, _)
Repeat(s, n) == IF n = 0 THEN << >> ELSE s \o Repeat(s, n - 1)

\* The texts manuscript.md can hold: empty, blank, without issues, with an
\* absolute statement, "all" with no space after it, and a weasel word
\* WeaselLimit and WeaselLimit + 1 times.
ManuscriptTexts ==
    {<< >>, <<" ">>, <<"o", "k">>, <<"A", "l", "w", "a", "y", "s">>,
     <<"a", "l", "l">>,
     Repeat(Weasels[5], WeaselLimit), Repeat(Weasels[5], WeaselLimit + 1)}

\* manuscript.md: absent, or holding one of the texts.
ManuscriptFiles == {NoneValue} \cup {StrValue(t) : t \in ManuscriptTexts}

\* os.environ.get("ANTHROPIC_API_KEY"): unset, empty, or a key.
ApiKeys == {NoneValue, StrValue(<< >>), StrValue(<<"k">>)}

\* What the API call and message.content[0].text do: the client raises an
\* API error, the content list is empty (IndexError), or a text comes back.
ValAiOutcomes ==
    {[raises |-> "APIError", text |-> << >>],
     [raises |-> "IndexError", text |-> << >>],
     [raises |-> "", text |-> << >>],
     [raises |-> "", text |-> <<"r">>]}

\* manuscript.lower()
LowerStr(s) == [i \in 1..Len(s) |-> Lower(s[i])]

\* s.count(sub) from position start
RECURSIVE PyCountFrom(_, _, _)
PyCountFrom(s, sub, start) ==
    LET i == PyFind(s, sub, start)
    IN  IF i = -1 THEN 0 ELSE 1 + PyCountFrom(s, sub, i + Len(sub))

\* s.count(sub)
PyCount(s, sub) == PyCountFrom(s, sub, 0)

\* f"- Found absolute statement: '{word}' - consider qualifying"
AbsoluteIssue(word) == [kind |-> "absolute", word |-> word, count |-> 0]

\* f"- Overuse of '{word}' ({count} times) - be more specific"
OveruseIssue(word, count) == [kind |-> "overuse", word |-> word, count |-> count]

\* The report of the automated checks: its issues in order ("No automated
\* issues found." when there are none) and the closing note.
BasicReport(issues) == [ai |-> FALSE, issues |-> issues, text |-> << >>]

\* message.content[0].text
AiReport(text) == [ai |-> TRUE, issues |-> << >>, text |-> text]

NoReport == AiReport(<< >>)

create_basic_validation(manuscript) ==
    LET lower == LowerStr(manuscript)
        found(word) == PyContains(lower, word)
        overused(word) == PyCount(lower, word) > WeaselLimit
        absolutes == SelectSeq(Absolutes, found)
        weasels == SelectSeq(Weasels, overused)
    IN  BasicReport(
            [i \in 1..Len(absolutes) |-> AbsoluteIssue(absolutes[i])]
            \o [i \in 1..Len(weasels) |->
                    OveruseIssue(weasels[i], PyCount(lower, weasels[i]))])

\* except Exception as e, narrowed to the API's errors
ExceptApiError(exc) == exc = "APIError"
\* except Exception as e
ExceptException(exc) == exc \in {"APIError", "IndexError"}

\* validate_arguments(args) has been called.
ValInit ==
    /\ files = NoFiles
    /\ store = EmptyBag
    /\ pc = "idle"
    /\ inv = NoInvocation
    /\ invocations = 0
    /\ files0 = NoFiles
    /\ store0 = EmptyBag
    /\ indexed = {}
    /\ conc = NoConc
    /\ \E file \in ManuscriptFiles, strict \in BOOLEAN, api_key \in ApiKeys,
          ai \in ValAiOutcomes :
          call = [fn |-> "validate_arguments", file |-> file, strict |-> strict,
                  api_key |-> api_key, ai |-> ai, pc |-> "read",
                  manuscript |-> NoneValue, report |-> NoReport,
                  written |-> [isNone |-> TRUE, report |-> NoReport],
                  exc |-> "", tried |-> FALSE, raised |-> FALSE]

\* manuscript = read_manuscript()
ValReadManuscript ==
    /\ call.fn = "validate_arguments"
    /\ call.pc = "read"
    /\ call' = [call EXCEPT !.pc = "check", !.manuscript = call.file]
    /\ UNCHANGED <<files, store, pc, inv, invocations, files0, store0, indexed, conc>>

\* if not manuscript: return
ValCheckManuscript ==
    /\ call.fn = "validate_arguments"
    /\ call.pc = "check"
    /\ call' = [call EXCEPT
                   !.pc = IF ~Truthy(call.manuscript) THEN "returned" ELSE "api_key"]
    /\ UNCHANGED <<files, store, pc, inv, invocations, files0, store0, indexed, conc>>

\* validate_with_ai: if not api_key: return create_basic_validation(manuscript)
ValCheckApiKey ==
    /\ call.fn = "validate_arguments"
    /\ call.pc = "api_key"
    /\ call' = IF ~Truthy(call.api_key)
               THEN [call EXCEPT !.pc = "save",
                                 !.report = create_basic_validation(call.manuscript.text)]
               ELSE [call EXCEPT !.pc = "create"]
    /\ UNCHANGED <<files, store, pc, inv, invocations, files0, store0, indexed, conc>>

\* validate_with_ai: client.messages.create(...); return message.content[0].text
ValCallAi ==
    /\ call.fn = "validate_arguments"
    /\ call.pc = "create"
    /\ call' = IF call.ai.raises # ""
               THEN [call EXCEPT !.pc = "except", !.tried = TRUE,
                                 !.exc = call.ai.raises]
               ELSE [call EXCEPT !.pc = "save", !.tried = TRUE,
                                 !.report = AiReport(call.ai.text)]
    /\ UNCHANGED <<files, store, pc, inv, invocations, files0, store0, indexed, conc>>

\* validate_with_ai: except Exception: return create_basic_validation(manuscript);
\* an exception the clause does not catch leaves validate_with_ai and
\* validate_arguments.
ValExcept ==
    /\ call.fn = "validate_arguments"
    /\ call.pc = "except"
    /\ call' = IF ExceptException(call.exc)
               THEN [call EXCEPT !.pc = "save", !.exc = "",
                                 !.report = create_basic_validation(call.manuscript.text)]
               ELSE [call EXCEPT !.pc = "returned", !.raised = TRUE]
    /\ UNCHANGED <<files, store, pc, inv, invocations, files0, store0, indexed, conc>>

\* save_validation_report(report)
ValSaveReport ==
    /\ call.fn = "validate_arguments"
    /\ call.pc = "save"
    /\ call' = [call EXCEPT !.pc = "returned",
                            !.written = [isNone |-> FALSE, report |-> call.report]]
    /\ UNCHANGED <<files, store, pc, inv, invocations, files0, store0, indexed, conc>>

ValNext ==
    \/ ValReadManuscript
    \/ ValCheckManuscript
    \/ ValCheckApiKey
    \/ ValCallAi
    \/ ValExcept
    \/ ValSaveReport

ValSpec == ValInit /\ [][ValNext]_vars

\* ------------------------------------------ preflight_check: check_system
\* "[n/10]": the checks of check_system
TotalChecks == 10

\* elif checks_failed <= 2
FailedAllowed == 2

\* sys.version_info as (major, minor)
PythonVersions == {<<2, 7>>, <<3, 7>>, <<3, 8>>, <<3, 12>>, <<4, 0>>}

\* sys.version_info >= (3, 8)
PythonVersionOk(v) == v[1] > 3 \/ (v[1] = 3 /\ v[2] >= 8)

\* required_packages, by package name
RequiredPackages ==
    {"chromadb", "sentence-transformers", "reportlab", "arxiv", "pyyaml"}

\* shutil.disk_usage('.').free / (1024**3), in tenths of a GB
DiskFree == {0, 5, 6, 20, 21}

\* check_system() has been called: checks_passed = 0, checks_failed = 0,
\* warnings = [].
PreInit ==
    /\ files = NoFiles
    /\ store = EmptyBag
    /\ pc = "idle"
    /\ inv = NoInvocation
    /\ invocations = 0
    /\ files0 = NoFiles
    /\ store0 = EmptyBag
    /\ indexed = {}
    /\ conc = NoConc
    /\ call = [fn |-> "check_system", pc |-> 1, checks_passed |-> 0,
               checks_failed |-> 0, warnings |-> << >>, missing |-> {},
               returned |-> FALSE, result |-> FALSE]

\* checks_passed += 1, after the warnings (if any) are appended
Passed(c, warned) ==
    [c EXCEPT !.pc = @ + 1, !.checks_passed = @ + 1, !.warnings = @ \o warned]

\* checks_failed += 1
Failed(c) == [c EXCEPT !.pc = @ + 1, !.checks_failed = @ + 1]

\* Check 1: Python version
PrePython ==
    /\ call.fn = "check_system"
    /\ call.pc = 1
    /\ \E v \in PythonVersions :
          call' = IF PythonVersionOk(v) THEN Passed(call, << >>) ELSE Failed(call)
    /\ UNCHANGED <<files, store, pc, inv, invocations, files0, store0, indexed, conc>>

\* Check 2: Claude CLI; found but not responding is a warning and passes
PreClaudeCli ==
    /\ call.fn = "check_system"
    /\ call.pc = 2
    /\ \E which \in BOOLEAN, responds \in BOOLEAN :
          call' = IF which
                  THEN IF responds THEN Passed(call, << >>)
                       ELSE Passed(call, <<"claude">>)
                  ELSE Failed(call)
    /\ UNCHANGED <<files, store, pc, inv, invocations, files0, store0, indexed, conc>>

\* Check 3: Gemini CLI
PreGeminiCli ==
    /\ call.fn = "check_system"
    /\ call.pc = 3
    /\ \E which \in BOOLEAN :
          call' = IF which THEN Passed(call, << >>) ELSE Failed(call)
    /\ UNCHANGED <<files, store, pc, inv, invocations, files0, store0, indexed, conc>>

\* Check 4: required Python packages; missing collects those whose import
\* raises ImportError
PrePackages ==
    /\ call.fn = "check_system"
    /\ call.pc = 4
    /\ \E missing \in SUBSET RequiredPackages :
          call' = IF missing = {}
                  THEN [Passed(call, << >>) EXCEPT !.missing = missing]
                  ELSE [Failed(call) EXCEPT !.missing = missing]
    /\ UNCHANGED <<files, store, pc, inv, invocations, files0, store0, indexed, conc>>

\* pdf_tools of check 5
PdfTools(pandoc, xelatex, pdflatex) ==
    (IF pandoc THEN {"pandoc"} ELSE {})
        \cup (IF xelatex THEN {"xelatex"}
              ELSE IF pdflatex THEN {"pdflatex"} ELSE {})

\* Check 5: LaTeX/pandoc; pdflatex without xelatex is a warning
PrePdfTools ==
    /\ call.fn = "check_system"
    /\ call.pc = 5
    /\ \E pandoc \in BOOLEAN, xelatex \in BOOLEAN, pdflatex \in BOOLEAN :
          call' = IF PdfTools(pandoc, xelatex, pdflatex) # {}
                  THEN Passed(call, IF ~xelatex /\ pdflatex
                                    THEN <<"xelatex">> ELSE << >>)
                  ELSE Failed(call)
    /\ UNCHANGED <<files, store, pc, inv, invocations, files0, store0, indexed, conc>>

\* Check 6: working directory
PreWorkingDirectory ==
    /\ call.fn = "check_system"
    /\ call.pc = 6
    /\ call' = Passed(call, << >>)
    /\ UNCHANGED <<files, store, pc, inv, invocations, files0, store0, indexed, conc>>

\* Check 7: embeddings model cache; not cached is a warning and passes
PreModelCache ==
    /\ call.fn = "check_system"
    /\ call.pc = 7
    /\ \E cached \in BOOLEAN :
          call' = IF cached THEN Passed(call, << >>)
                  ELSE Passed(call, <<"model">>)
    /\ UNCHANGED <<files, store, pc, inv, invocations, files0, store0, indexed, conc>>

\* Check 8: write permissions; write_text or unlink raising is a failure
PreWritePermission ==
    /\ call.fn = "check_system"
    /\ call.pc = 8
    /\ \E writes \in BOOLEAN :
          call' = IF writes THEN Passed(call, << >>) ELSE Failed(call)
    /\ UNCHANGED <<files, store, pc, inv, invocations, files0, store0, indexed, conc>>

\* Check 9: disk space; between 0.5 and 2 GB is a warning and passes
PreDiskSpace ==
    /\ call.fn = "check_system"
    /\ call.pc = 9
    /\ \E free \in DiskFree :
          call' = IF free > 20 THEN Passed(call, << >>)
                  ELSE IF free > 5 THEN Passed(call, <<"disk">>)
                  ELSE Failed(call)
    /\ UNCHANGED <<files, store, pc, inv, invocations, files0, store0, indexed, conc>>

\* Check 10: Git; no user.name is a warning, git config raising passes
PreGit ==
    /\ call.fn = "check_system"
    /\ call.pc = 10
    /\ \E which \in BOOLEAN, runs \in BOOLEAN, named \in BOOLEAN :
          call' = IF which
                  THEN IF runs /\ ~named THEN Passed(call, <<"git">>)
                       ELSE Passed(call, << >>)
                  ELSE Failed(call)
    /\ UNCHANGED <<files, store, pc, inv, invocations, files0, store0, indexed, conc>>

\* return True only with no failed check
CheckSystemResultStrict(checks_failed) == checks_failed = 0
\* if checks_failed == 0: return True; elif checks_failed <= 2: return True;
\* else: return False
CheckSystemResult(checks_failed) ==
    IF checks_failed = 0 THEN TRUE
    ELSE IF checks_failed <= FailedAllowed THEN TRUE
    ELSE FALSE

\* Summary
PreSummary ==
    /\ call.fn = "check_system"
    /\ call.pc = TotalChecks + 1
    /\ ~call.returned
    /\ call' = [call EXCEPT !.returned = TRUE,
                            !.result = CheckSystemResult(call.checks_failed)]
    /\ UNCHANGED <<files, store, pc, inv, invocations, files0, store0, indexed, conc>>

PreNext ==
    \/ PrePython
    \/ PreClaudeCli
    \/ PreGeminiCli
    \/ PrePackages
    \/ PrePdfTools
    \/ PreWorkingDirectory
    \/ PreModelCache
    \/ PreWritePermission
    \/ PreDiskSpace
    \/ PreGit
    \/ PreSummary

PreSpec == PreInit /\ [][PreNext]_vars

\* ------------------------------------------- two invocations at once
\* Two processes run generate_chapter_with_coherence on one book_dir.  Each
\* is followed from the point where call_ai has returned its content: what
\* comes before reads the store and writes nothing.
Procs == {"a", "b"}

\* The non-empty contents call_ai can return.
ConcContents == {Strip(r) : r \in Replies} \ {<< >>}

\* The project before the two start: empty, or one chapter already
\* generated and indexed with title "b" and content "w".
SeedContent == <<"w">>
SeedTitle == <<"b">>
ConcSeeds ==
    {[files |-> NoFiles, store |-> EmptyBag]}
    \cup {[files |-> WriteFile(NoFiles, OutputPath(n, SeedTitle), SeedContent),
           store |-> index_chapter(EmptyBag, n, SeedContent,
                                   [title |-> SeedTitle,
                                    word_count |-> WordCount(SeedContent)])] :
             n \in ChapterArgs}

\* The locals of one process when its call_ai has returned.
ConcInvocation(chapter_num, chapter_title, chapter_content) ==
    [chapter_num     |-> chapter_num,
     chapter_title   |-> chapter_title,
     chapter_content |-> chapter_content,
     collection      |-> TRUE,
     word_count      |-> 0,
     pc              |-> "save_chapter"]

ConcInit ==
    /\ pc = "idle"
    /\ inv = NoInvocation
    /\ invocations = 0
    /\ files0 = NoFiles
    /\ store0 = EmptyBag
    /\ indexed = {}
    /\ call = NoCall
    /\ \E seed \in ConcSeeds :
          /\ files = seed.files
          /\ store = seed.store
          /\ \E ps \in [Procs -> ChapterArgs \X TitleArgs \X ConcContents] :
                conc = [procs |-> [p \in Procs |->
                                     ConcInvocation(ps[p][1], ps[p][2], ps[p][3])],
                        log   |-> << >>,
                        store0 |-> seed.store]

\* Process p: with open(output_path, 'w') as f: f.write(chapter_content)
ConcSaveChapter(p, outcome) ==
    /\ conc.procs # << >>
    /\ conc.procs[p].pc = "save_chapter"
    /\ LET me   == conc.procs[p]
           path == OutputPath(me.chapter_num, me.chapter_title)
           text == me.chapter_content
       IN  IF outcome = "written"
           THEN /\ files' = WriteFile(files, path, text)
                /\ conc' = [conc EXCEPT
                               !.procs[p].word_count = WordCount(text),
                               !.procs[p].pc = "index_chapter",
                               !.log = Append(@, <<p, "write">>)]
           ELSE IF outcome = "open_failed"
           THEN /\ files' = files
                /\ conc' = [conc EXCEPT !.procs[p].pc = "raised"]
           ELSE /\ \E partial \in 0..(Len(text) - 1) :
                       files' = WriteFile(files, path, SubSeq(text, 1, partial))
                /\ conc' = [conc EXCEPT !.procs[p].pc = "raised",
                                        !.log = Append(@, <<p, "truncate">>)]
    /\ UNCHANGED <<store, pc, inv, invocations, files0, store0, indexed, call>>

\* Process p: if embeddings.collection: embeddings.index_chapter(...); return
ConcIndexChapter(p, outcome) ==
    /\ conc.procs # << >>
    /\ conc.procs[p].pc = "index_chapter"
    /\ LET me == conc.procs[p]
       IN  IF IndexGuard(me.collection)
           THEN IF outcome = "indexed"
                THEN /\ store' = index_chapter(store, IndexKey(me.chapter_num),
                                     me.chapter_content,
                                     IndexMetadata(me.chapter_title, me.word_count))
                     /\ conc' = [conc EXCEPT !.procs[p].pc = "returned",
                                             !.log = Append(@, <<p, "index">>)]
                ELSE /\ store' = store
                     /\ conc' = [conc EXCEPT !.procs[p].pc = "raised"]
           ELSE /\ outcome = "indexed"
                /\ store' = store
                /\ conc' = [conc EXCEPT !.procs[p].pc = "returned"]
    /\ UNCHANGED <<files, pc, inv, invocations, files0, store0, indexed, call>>

ConcNext ==
    \/ \E p \in Procs, outcome \in SaveOutcomes : ConcSaveChapter(p, outcome)
    \/ \E p \in Procs, outcome \in IndexOutcomes : ConcIndexChapter(p, outcome)

ConcSpec == ConcInit /\ [][ConcNext]_vars

\* ------------------------------------------------------------ properties
\* The chapter numbers a context query may be asked for.
QueryChapters == 0..(MaxChapter + 1)

\* The external collaborator failed: the process did not exit with status
\* 0, or it printed nothing but whitespace.
CollaboratorFailed(cli) ==
    \/ cli.kind # "exit0"
    \/ \A i \in 1..Len(cli.stdout) : cli.stdout[i] \in Whitespace

\* The output files of one chapter.
FilesOf(fs, n) == {p \in DOMAIN fs : p[1] = n}

\* The store entries of one chapter.
EntriesOf(st, n) == {e \in BagToSet(st) : e.chapter = n}

\* chapter_number < 1, an empty title or an empty outline.
InvalidInput ==
    \/ inv.chapter_num < 1
    \/ inv.chapter_title = << >>
    \/ inv.outline = << >>

\* The running invocation has valid arguments, and so had the invocations
\* that left the files and store entries it started with.
ValidRun ==
    /\ pc # "idle"
    /\ ~InvalidInput
    /\ \A e \in BagToSet(store0) : e.chapter >= 1 /\ e.title # << >>
    /\ \A p \in DOMAIN files0 : p[1] >= 1 /\ p[2] # << >>

\* C1: when the external generation collaborator fails (no exit status 0, or
\* an empty or whitespace-only reply) the invocation ends there with no
\* content returned, and the output files and the store are what they were
\* when it started, so no context query sees a chapter it did not see before.
C1_GenerationFailureLeavesNoTrace ==
    [][\A cli \in CliOutcomes :
          (CallAI(cli) /\ CollaboratorFailed(cli)) =>
              /\ pc' = "done"
              /\ inv'.result = "none"
              /\ inv'.saved = "no" /\ inv'.indexing = "no"
              /\ files' = files0'
              /\ store' = store0'
              /\ \A N \in QueryChapters :
                    VisibleChapters(store', N) = VisibleChapters(store0', N)]_vars

\* A failed generation of a chapter >= 1 in a project that already has
\* files and store entries.
C1_Witness ==
    /\ pc = "done"
    /\ inv.ai_called
    /\ inv.result = "none"
    /\ ValidRun
    /\ store # EmptyBag
    /\ files # NoFiles

\* C2: the context an invocation for chapter N retrieves, and puts in its
\* prompt, consists of excerpts of store entries with a chapter number
\* strictly below N, whatever else the store holds; and every context the
\* store can return for any N does.
C2_NoForwardLeakage ==
    /\ \A i \in 1..Len(inv.context) :
          /\ inv.context[i].chapter < inv.chapter_num
          /\ \E e \in BagToSet(store0) : inv.context[i] = Excerpt(e)
    /\ \A i \in 1..Len(inv.prompt.context) :
          inv.prompt.context[i].chapter < inv.chapter_num
    /\ \A N \in QueryChapters :
          \A ctx \in get_chapter_context(store, TRUE, N) :
              \A i \in 1..Len(ctx) : ctx[i].chapter < N

\* Context has been retrieved for chapter N from an available store that
\* already holds chapter N or a later one.
C2_Witness ==
    /\ pc = "build_prompt"
    /\ inv.collection
    /\ ValidRun
    /\ inv.chapter_num > 1
    /\ \E e \in BagToSet(store) : e.chapter >= inv.chapter_num

\* C3: when the chapters indexed so far are exactly 1..k, the chapters
\* visible to get_chapter_context(k+1) are exactly 1..k.
C3_MonotonicGrowth ==
    \A k \in 1..MaxChapter :
        indexed = 1..k => VisibleChapters(store, k + 1) = 1..k

\* Chapters 1 and 2 have both been generated and indexed.
C3_Witness ==
    /\ pc = "done"
    /\ indexed = 1..2
    /\ ValidRun
    /\ inv.indexing = "indexed"

\* The store entry a successful invocation is due to leave for its chapter:
\* the title argument and the word count of the content it received.
DueEntry ==
    StoreEntry(inv.chapter_num, inv.chapter_content.text,
               [title |-> inv.chapter_title,
                word_count |-> WordCount(inv.chapter_content.text)])

\* A successful invocation that indexed its chapter has ended, for a chapter
\* that had an output file and a store entry when it started.
Regenerated ==
    /\ pc = "done"
    /\ ValidRun
    /\ inv.result = "content"
    /\ inv.indexing = "indexed"
    /\ FilesOf(files0, inv.chapter_num) # {}
    /\ EntriesOf(store0, inv.chapter_num) # {}

\* After it the chapter has one output file, holding the new content, and
\* one store entry, made of the new content; every context for a later
\* chapter that shows the chapter shows the new entry.
Overwritten ==
    LET n    == inv.chapter_num
        path == OutputPath(n, inv.chapter_title)
    IN  /\ FilesOf(files, n) = {path}
        /\ files[path] = inv.chapter_content.text
        /\ EntriesOf(store, n) = {DueEntry}
        /\ CopiesIn(DueEntry, store) = 1
        /\ \A N \in QueryChapters :
              \A ctx \in get_chapter_context(store, TRUE, N) :
                  \A i \in 1..Len(ctx) :
                      ctx[i].chapter = n => ctx[i] = Excerpt(DueEntry)

\* C4 as stated: a second successful generation of an indexed chapter, with
\* the same or a different title, leaves the chapter one output file and one
\* store entry, both of the new content.
C4_RegenerationOverwrites == Regenerated => Overwritten

\* C4 as amended: a second successful generation of an indexed chapter
\* whose title normalises to the name of the chapter's existing output file
\* leaves the chapter one output file and one store entry, both of the new
\* content.
C4_RegenerationOverwritesSameFile ==
    (/\ Regenerated
     /\ FilesOf(files0, inv.chapter_num) =
            {OutputPath(inv.chapter_num, inv.chapter_title)})
    => Overwritten

\* A chapter has been regenerated into its existing file with a content
\* and a store entry that differ from the old ones.
C4_Witness ==
    /\ Regenerated
    /\ FilesOf(files0, inv.chapter_num) =
           {OutputPath(inv.chapter_num, inv.chapter_title)}
    /\ files0[OutputPath(inv.chapter_num, inv.chapter_title)] # inv.chapter_content.text
    /\ DueEntry \notin BagToSet(store0)

\* The content a store entry was made of is in an output file of its chapter.
OnDisk(fs, e) ==
    \E p \in FilesOf(fs, e.chapter) :
        /\ Embed(fs[p]) = e.embedding
        /\ WordCount(fs[p]) = e.word_count

IndexedOnDisk(fs, st) == \A e \in BagToSet(st) : OnDisk(fs, e)

\* The invocation that has ended was a success that indexed its chapter, a
\* generation failure or a file-write failure.
InTheMix ==
    \/ inv.result = "none"
    \/ inv.saved \in {"open_failed", "write_failed"}
    \/ inv.indexing = "indexed"

\* C5: an invocation that succeeds, fails to generate or fails to write its
\* file, started where every indexed chapter has its content on disk, ends
\* where every indexed chapter has its content on disk; and it leaves the
\* store as it was unless its file was written.
C5_IndexedImpliesOnDisk ==
    (pc = "done" /\ ValidRun /\ InTheMix /\ IndexedOnDisk(files0, store0)) =>
        /\ IndexedOnDisk(files, store)
        /\ (inv.saved # "written" => store = store0)

\* C6: an invocation whose index_chapter call failed still returns the
\* generated content.
C6_IndexingIsBestEffort ==
    (pc = "done" /\ ValidRun /\ inv.indexing = "failed") => inv.result = "content"

C8_InputValidationFailsFast ==
    (pc # "idle" /\ InvalidInput) =>
        /\ ~inv.ai_called
        /\ files = files0
        /\ store = store0

\* C9: indexing a chapter with the arguments its store entry was made of
\* leaves the store as it was, with one entry for the chapter, so every
\* context query returns what it returned before.
C9_IndexingIsIdempotent ==
    (pc = "done" /\ inv.indexing = "indexed" /\ DueEntry \in BagToSet(store0)) =>
        /\ store = store0
        /\ EntriesOf(store, inv.chapter_num) = {DueEntry}
        /\ CopiesIn(DueEntry, store) = 1
        /\ \A N \in QueryChapters :
              get_chapter_context(store, TRUE, N) = get_chapter_context(store0, TRUE, N)

\* A chapter has been generated and indexed a second time with the same
\* title and content.
C9_Witness ==
    /\ pc = "done"
    /\ inv.indexing = "indexed"
    /\ ValidRun
    /\ DueEntry \in BagToSet(store0)

\* C10: an invocation for chapter 1 has an empty context and its prompt has
\* no context block, whatever the store holds.
C10_ChapterOneHasNoContext ==
    (pc # "idle" /\ inv.chapter_num = 1) =>
        /\ inv.context = << >>
        /\ ~inv.prompt.label
        /\ inv.prompt.context = << >>

\* The prompt for chapter 1 has been built with an available store that
\* holds chapters.
C10_Witness ==
    /\ pc = "call_ai"
    /\ inv.chapter_num = 1
    /\ ValidRun
    /\ inv.collection
    /\ store # EmptyBag

\* C11: within one invocation the context is retrieved before the generation
\* call, the file is written only after a non-empty response and the chapter
\* is indexed only after the file is written; the generation call neither
\* changes the store nor changes what was read from it, so a call that
\* fails or times out leaves the store as the invocation found it.
C11_StepOrdering ==
    /\ [](/\ (pc \in {"init_embeddings", "get_context", "build_prompt", "call_ai"})
              => /\ ~inv.ai_called /\ inv.saved = "no" /\ inv.indexing = "no"
                 /\ store = store0 /\ files = files0
          /\ inv.ai_called => pc \in {"save_chapter", "index_chapter", "done"}
          /\ inv.saved # "no" => inv.ai_called /\ Truthy(inv.chapter_content)
          /\ inv.indexing # "no" => inv.saved = "written"
          /\ (pc = "done" /\ ~Truthy(inv.chapter_content)) => store = store0)
    /\ [][/\ store' # store =>
                /\ pc = "index_chapter"
                /\ inv.saved = "written"
                /\ Truthy(inv.chapter_content)
          /\ files' # files => pc = "save_chapter" /\ inv.indexing = "no"
          /\ \A cli \in CliOutcomes :
                CallAI(cli) => /\ store' = store
                               /\ inv'.context = inv.context
                               /\ inv'.prompt = inv.prompt]_vars

\* An invocation has gone through all four steps: it retrieved a non-empty
\* context, received content, wrote the file and indexed the chapter.
C11_Witness ==
    /\ pc = "done"
    /\ ValidRun
    /\ inv.context # << >>
    /\ inv.saved = "written"
    /\ inv.indexing = "indexed"
    /\ store # store0

\* The providers the invocation has handed its prompt to: call_ai is called
\* once, with the provider argument.
ProvidersTried == IF inv.ai_called THEN {inv.provider} ELSE {}

\* C12: an invocation that ends with no content because generation failed
\* has tried the primary provider and then the secondary one, and a provider
\* failure never leaves the invocation as an exception.
C12_ProviderFallback ==
    (pc = "done" /\ ValidRun /\ inv.ai_called /\ ~Truthy(inv.chapter_content)) =>
        /\ inv.result = "none"
        /\ ProvidersTried = ProviderArgs

\* Every output file but the invocation's own, and every file of another
\* chapter, is what it was when the invocation started.
OtherFilesKept ==
    \A p \in DOMAIN files \cup DOMAIN files0 :
        (p[1] # inv.chapter_num \/ p # OutputPath(inv.chapter_num, inv.chapter_title))
        => /\ p \in DOMAIN files /\ p \in DOMAIN files0
           /\ files[p] = files0[p]

\* Every store entry of another chapter is there as often as it was when
\* the invocation started, embedding and metadata included.
OtherEntriesKept ==
    \A e \in BagToSet(store) \cup BagToSet(store0) :
        e.chapter # inv.chapter_num => CopiesIn(e, store) = CopiesIn(e, store0)

\* C13: at every point of an invocation for chapter n, however it ends, the
\* output files and the store entries of every other chapter are what they
\* were when it started.
C13_OtherChaptersUntouched ==
    pc # "idle" => OtherFilesKept /\ OtherEntriesKept

\* An invocation has written and indexed its chapter in a project that
\* holds an output file and a store entry of another chapter.
C13_Witness ==
    /\ pc = "done"
    /\ ValidRun
    /\ inv.indexing = "indexed"
    /\ store # store0
    /\ files # files0
    /\ \E p \in DOMAIN files0 : p[1] # inv.chapter_num
    /\ \E e \in BagToSet(store0) : e.chapter # inv.chapter_num

\* C14: no invocation is refused because of the chapters generated before
\* it.  An invocation ends without content only when the collaborator gave
\* no content, and raises only when the file write or the indexing failed;
\* one that got content, wrote and indexed returns the content.  Its context
\* shows only chapters the store held when it started, so a chapter not yet
\* generated is simply missing from it; and between invocations nothing
\* but the output files and the store is kept.
C14_OrderNotEnforced ==
    /\ (pc = "done" /\ inv.result = "none")
          => inv.ai_called /\ ~Truthy(inv.chapter_content)
    /\ (pc = "done" /\ inv.result = "raised")
          => \/ inv.saved \in {"open_failed", "write_failed"}
             \/ inv.indexing = "failed"
    /\ (pc = "done" /\ Truthy(inv.chapter_content) /\ inv.saved = "written"
           /\ inv.indexing \in {"indexed", "skipped"})
          => inv.result = "content"
    /\ pc \notin {"idle", "init_embeddings", "get_context"}
          => \A i \in 1..Len(inv.context) :
                 inv.context[i].chapter \in VisibleChapters(store0, inv.chapter_num)
    /\ pc = "idle" => inv = NoInvocation

\* A chapter above 1 has been generated and indexed, with an empty context,
\* on an available store that did not hold its predecessor.
C14_Witness ==
    /\ pc = "done"
    /\ ValidRun
    /\ inv.chapter_num > 1
    /\ inv.collection
    /\ (inv.chapter_num - 1) \notin VisibleChapters(store0, inv.chapter_num)
    /\ inv.context = << >>
    /\ inv.result = "content"
    /\ inv.indexing = "indexed"

\* The chapter numbers the store has an entry for.
StoredChapters(st) == {e.chapter : e \in BagToSet(st)}

\* C15: every chapter an earlier invocation indexed is visible to the context
\* queries for the later chapters, in every later session on the project;
\* no step takes a chapter out of the store, and opening the store changes
\* nothing in it; the store holds one entry per chapter number at most.
C15_StorePersists ==
    /\ [](/\ \A n \in indexed : \A N \in QueryChapters :
                 N > n => n \in VisibleChapters(store, N)
          /\ \A e \in BagToSet(store) :
                 /\ CopiesIn(e, store) = 1
                 /\ EntriesOf(store, e.chapter) = {e})
    /\ [][/\ StoredChapters(store) \subseteq StoredChapters(store')
          /\ \A available \in BOOLEAN :
                InitEmbeddings(available) => store' = store]_vars

\* A later session has re-indexed, with another content, a chapter that an
\* earlier session left in the store.
C15_Witness ==
    /\ pc = "done"
    /\ ValidRun
    /\ invocations > 1
    /\ inv.indexing = "indexed"
    /\ EntriesOf(store0, inv.chapter_num) # {}
    /\ DueEntry \notin BagToSet(store0)
    /\ Cardinality(EntriesOf(store, inv.chapter_num)) = 1

\* C16: for every provider value and every way the CLI process ends,
\* call_ai returns and does not raise; what it returns is what the call_ai
\* function of the model computes; it is a text exactly when the provider
\* is "claude" or "gemini" and its CLI exited with status 0, and then the
\* text is the standard output without leading and trailing whitespace;
\* otherwise it is None.
C16_CallAiFailsByValue ==
    call.pc = "returned" =>
        /\ ~call.raised
        /\ call.out = call_ai(call.provider, call.cli)
        /\ IF call.provider \in {"claude", "gemini"} /\ call.cli.kind = "exit0"
           THEN /\ ~call.out.isNone
                /\ call.out.text = Strip(call.cli.stdout)
                /\ call.out.text = << >>
                      \/ (/\ call.out.text[1] \notin Whitespace
                          /\ call.out.text[Len(call.out.text)] \notin Whitespace)
           ELSE call.out = NoneValue

\* call_ai has returned the stripped text of a standard output that had
\* whitespace on both sides.
C16_Witness ==
    /\ call.pc = "returned"
    /\ call.provider = "claude"
    /\ call.cli.kind = "exit0"
    /\ call.out.text # << >>
    /\ call.out.text # call.cli.stdout

\* C17: once built, the prompt carries the chapter number, the title and
\* the outline of the invocation; it carries the label line and the retrieved
\* context when the context is non-empty, and neither when it is empty.
C17_PromptComposition ==
    pc \in {"call_ai", "save_chapter", "index_chapter", "done"} =>
        /\ inv.prompt.chapter_num = inv.chapter_num
        /\ inv.prompt.chapter_title = inv.chapter_title
        /\ inv.prompt.outline = inv.outline
        /\ inv.prompt.label <=> (inv.context # << >>)
        /\ inv.prompt.context = inv.context

\* A prompt with the labelled context block is about to be passed to the
\* generation collaborator.
C17_Witness ==
    /\ pc = "call_ai"
    /\ ValidRun
    /\ inv.context # << >>
    /\ inv.prompt.label
    /\ inv.prompt.context = inv.context

\* A successful invocation has ended: the output file holds exactly the
\* content received and the word count reported is its number of
\* whitespace-delimited tokens.
ReportedAsWritten ==
    LET path == OutputPath(inv.chapter_num, inv.chapter_title)
    IN  /\ path \in DOMAIN files
        /\ files[path] = inv.chapter_content.text
        /\ inv.word_count = WordCount(files[path])

\* C18 as stated: after every successful invocation the word count equals
\* the token count of the content written, and the store entry of the
\* chapter, if there is one, has the title argument and is made of that
\* content: it describes the last successfully generated content.
C18_EntryDescribesLastSuccess ==
    (pc = "done" /\ ValidRun /\ inv.result = "content") =>
        /\ ReportedAsWritten
        /\ \A e \in EntriesOf(store, inv.chapter_num) : e = DueEntry

\* C18 as amended: after every successful invocation the word count equals
\* the token count of the content written; when the invocation indexed the
\* chapter, the chapter's one store entry has the title argument and the
\* word count and embedding of that content; when it ran without the store,
\* the store is what it was, so the entry describes the content last indexed.
C18_EntryDescribesLastIndexed ==
    (pc = "done" /\ ValidRun /\ inv.result = "content") =>
        /\ ReportedAsWritten
        /\ inv.indexing \in {"indexed", "skipped"}
        /\ inv.indexing = "indexed" =>
              /\ EntriesOf(store, inv.chapter_num) = {DueEntry}
              /\ \A e \in EntriesOf(store, inv.chapter_num) :
                    /\ e.title = inv.chapter_title
                    /\ e.word_count = inv.word_count
                    /\ e.embedding = Embed(inv.chapter_content.text)
        /\ inv.indexing = "skipped" => store = store0

\* A chapter with a store entry has been generated again, with a content of
\* two words, written and indexed.
C18_Witness ==
    /\ pc = "done"
    /\ ValidRun
    /\ inv.result = "content"
    /\ inv.indexing = "indexed"
    /\ inv.word_count = 2
    /\ \E e \in EntriesOf(store0, inv.chapter_num) : e.word_count # 2

\* The store entry process p is due to leave for its chapter.
ConcEntry(p) ==
    LET me == conc.procs[p]
    IN  StoreEntry(me.chapter_num, me.chapter_content,
                   [title |-> me.chapter_title,
                    word_count |-> WordCount(me.chapter_content)])

\* The store st after the index_chapter call of process p alone.
ConcIndexed(st, p) ==
    LET me == conc.procs[p]
    IN  index_chapter(st, me.chapter_num, me.chapter_content,
                      [title |-> me.chapter_title,
                       word_count |-> WordCount(me.chapter_content)])

\* Both processes have returned after indexing chapters of different numbers.
BothIndexedApart(p, q) ==
    /\ p # q
    /\ conc.procs[p].pc = "returned" /\ conc.procs[q].pc = "returned"
    /\ conc.procs[p].chapter_num # conc.procs[q].chapter_num

\* C19: when two processes index chapters of different numbers, then under
\* every interleaving of their file writes and index_chapter calls the
\* store ends holding one entry of each, and is the store that running the
\* two calls one after the other, in either order, on the store they
\* started with would have left; and on every store reached on the way the
\* two calls commute.
C19_IndependentUpsertsCommute ==
    conc.procs # << >> =>
        \A p, q \in Procs :
            /\ BothIndexedApart(p, q) =>
                  /\ CopiesIn(ConcEntry(p), store) = 1
                  /\ CopiesIn(ConcEntry(q), store) = 1
                  /\ store = ConcIndexed(ConcIndexed(conc.store0, p), q)
                  /\ store = ConcIndexed(ConcIndexed(conc.store0, q), p)
            /\ conc.procs[p].chapter_num # conc.procs[q].chapter_num =>
                  ConcIndexed(ConcIndexed(store, p), q)
                      = ConcIndexed(ConcIndexed(store, q), p)

\* Two processes have indexed chapters of different numbers, their steps
\* interleaved, on a store that already held one of the two chapters.
C19_Witness ==
    /\ conc.procs # << >>
    /\ \E p, q \in Procs :
          /\ BothIndexedApart(p, q)
          /\ conc.log = <<<<p, "write">>, <<q, "write">>, <<q, "index">>, <<p, "index">>>>
          /\ EntriesOf(conc.store0, conc.procs[p].chapter_num) # {}
          /\ ConcEntry(p) \notin BagToSet(conc.store0)

\* Both processes have returned after writing and indexing the same chapter
\* under the same title.
BothRegenerated(p, q) ==
    /\ p # q
    /\ conc.procs[p].pc = "returned" /\ conc.procs[q].pc = "returned"
    /\ conc.procs[p].chapter_num = conc.procs[q].chapter_num
    /\ conc.procs[p].chapter_title = conc.procs[q].chapter_title

\* The chapter's output file holds the content of process p and the
\* chapter's one store entry is made of it.
FileAndEntryFrom(p) ==
    LET me   == conc.procs[p]
        path == OutputPath(me.chapter_num, me.chapter_title)
    IN  /\ path \in DOMAIN files
        /\ files[path] = me.chapter_content
        /\ EntriesOf(store, me.chapter_num) = {ConcEntry(p)}

\* The process that was the last to do a step of the given kind.
LastTo(kind, p) ==
    \E i \in 1..Len(conc.log) :
        /\ conc.log[i] = <<p, kind>>
        /\ \A j \in (i + 1)..Len(conc.log) : conc.log[j][2] # kind

C21_SynthesisFallbackOrder ==
    /\ call.calls \in {<< >>, <<"claude">>, <<"claude", "gemini">>}
    /\ call.papers = << >> => call.calls = << >>
    /\ Len(call.calls) = 2 => ~Truthy(call_ai("claude", call.claude))
    /\ call.pc = "returned" =>
          /\ Truthy(call.out)
          /\ call.papers = << >> <=> call.via = "no_papers"
          /\ call.papers # << >> => call.calls[1] = "claude"
          /\ call.via = "claude" =>
                call.calls = <<"claude">> /\ call.out = call_ai("claude", call.claude)
          /\ call.via = "gemini" =>
                call.calls = <<"claude", "gemini">>
                /\ call.out = call_ai("gemini", call.gemini)
          /\ call.via = "basic" <=>
                /\ call.papers # << >>
                /\ ~Truthy(call_ai("claude", call.claude))
                /\ ~Truthy(call_ai("gemini", call.gemini))
          /\ call.via = "basic" =>
                call.out.text = create_basic_summary(call.papers)

\* The basic summary has been returned after Claude printed only whitespace
\* and Gemini timed out.
C21_Witness ==
    /\ call.pc = "returned"
    /\ call.via = "basic"
    /\ call.calls = <<"claude", "gemini">>
    /\ call.claude.kind = "exit0"
    /\ call.gemini.kind = "timeout"
    /\ Len(call.papers) = MaxPapers

\* The reply generate_experiment_design works on: Claude's if it is
\* non-empty, Gemini's otherwise.
ExpReply ==
    IF Truthy(call_ai("claude", call.claude))
    THEN call_ai("claude", call.claude)
    ELSE call_ai("gemini", call.gemini)

\* The text carries a fenced YAML block that loads to something that is
\* not a mapping.
NonMappingBlock(text) ==
    /\ PyContains(text, Fence \o YamlTag)
    /\ LET from   == PyFind(text, Fence \o YamlTag, 0) + YamlFenceLen
           loaded == yaml_safe_load(PySlice(text, from, PyFind(text, Fence, from)))
       IN  ~loaded.raised /\ loaded.value.type # "dict"

\* C22: generate_experiment_design returns a dict and does not raise; it
\* calls Claude first and Gemini only after Claude gave nothing; it returns
\* the template design exactly when both gave nothing or an exception
\* occurred, which is what happens when the reply carries a YAML block that
\* loads to a non-mapping; otherwise the dict returned holds the reply under
\* 'raw_response'.
C22_DesignAlwaysUsable ==
    /\ call.calls \in {<< >>, <<"claude">>, <<"claude", "gemini">>}
    /\ Len(call.calls) = 2 => ~Truthy(call_ai("claude", call.claude))
    /\ call.pc = "returned" =>
          /\ ~call.raised
          /\ call.out.type = "dict"
          /\ Len(call.calls) = 2 <=> ~Truthy(call_ai("claude", call.claude))
          /\ call.via \in {"template", "template_after_error"}
                <=> call.out = create_template_design
          /\ call.via = "template" <=> ~Truthy(ExpReply)
          /\ call.via = "template_after_error" <=>
                (Truthy(ExpReply) /\ NonMappingBlock(ExpReply.text))
          /\ call.via = "design" =>
                /\ "raw_response" \in DOMAIN call.out.items
                /\ call.out.items["raw_response"] = ExpReply.text

\* The template has been returned because Gemini, called after Claude
\* failed, replied with a YAML block that holds a list.
C22_Witness ==
    /\ call.pc = "returned"
    /\ call.calls = <<"claude", "gemini">>
    /\ call.via = "template_after_error"
    /\ call.design.type = "list"
    /\ call.out = create_template_design

\* The text of a complete fenced block: what lies between the opening
\* fence (with its json tag, if the text has one) and the next fence.
HasCompleteBlock(text) ==
    LET open == IF PyContains(text, Fence \o JsonTag)
                THEN PyFind(text, Fence \o JsonTag, 0) + Len(Fence \o JsonTag)
                ELSE PyFind(text, Fence, 0) + Len(Fence)
    IN  PyContains(text, Fence) /\ PyFind(text, Fence, open) # -1

BlockText(text) ==
    LET open == IF PyContains(text, Fence \o JsonTag)
                THEN PyFind(text, Fence \o JsonTag, 0) + Len(Fence \o JsonTag)
                ELSE PyFind(text, Fence, 0) + Len(Fence)
    IN  SubSeq(text, open + 1, PyFind(text, Fence, open))

\* What call_ai_json returns, apart from the type of a parsed value: {}
\* when the AI call yields no response, the parsed value when the text
\* parses, {"raw_response": text} when it does not; the text parsed is the
\* whole response or, for a complete fenced block, the text between its
\* fences without the whitespace around it.
JsonResultAsDescribed ==
    /\ ~call.raised
    /\ call.via = "no_response" <=> ~Truthy(call.reply)
    /\ call.via = "no_response" => call.out = PyDict(EmptyItems)
    /\ call.via = "parsed" =>
          ~json_loads(call.response).raised
          /\ call.out = json_loads(call.response).value
    /\ call.via = "raw_response" =>
          /\ json_loads(call.response).raised
          /\ call.out = PyDict([k \in {"raw_response"} |-> call.response])
    /\ (Truthy(call.reply) /\ HasCompleteBlock(call.reply.text)) =>
          call.response = Strip(BlockText(call.reply.text))
    /\ (Truthy(call.reply) /\ ~PyContains(call.reply.text, Fence)) =>
          call.response = call.reply.text

RECURSIVE SumOfLimits(_)
SumOfLimits(queried) ==
    IF queried = << >> THEN 0
    ELSE queried[1][2] + SumOfLimits(Tail(queried))

\* C24: search_papers queries a database only if it is selected, each at
\* most once, with the limit floor(limit / length of the list); the limits
\* of the queries made add up to limit at most, and so does the number of
\* papers returned; and no selection, the empty one included, divides by
\* zero.
C24_LimitIsGlobalMaximum ==
    /\ ~call.raised
    /\ \A i, j \in 1..Len(call.queried) :
          i # j => call.queried[i][1] # call.queried[j][1]
    /\ \A i \in 1..Len(call.queried) :
          /\ Selected(call.queried[i][1], call.databases)
          /\ call.queried[i][2] * Len(call.databases) <= call.limit
          /\ (call.queried[i][2] + 1) * Len(call.databases) > call.limit
    /\ SumOfLimits(call.queried) <= call.limit
    /\ call.papers <= SumOfLimits(call.queried)
    /\ call.pc = "returned" =>
          \A db \in {"arxiv", "scholar", "acm"} :
              Selected(db, call.databases) <=>
                  \E i \in 1..Len(call.queried) : call.queried[i][1] = db

\* Three selected databases have each been queried with limit 1 for a
\* limit of MaxLimit, and arXiv returned a paper.
C24_Witness ==
    /\ call.pc = "returned"
    /\ call.limit = MaxLimit
    /\ Len(call.queried) = 3
    /\ call.papers > 0
    /\ SumOfLimits(call.queried) < call.limit

\* The AI call of validate_with_ai was made and raised.
AiCallFailed == call.tried /\ call.ai.raises # ""

\* C25: when validate_arguments has returned, the validation report is
\* written exactly if manuscript.md exists and is not empty; no report is
\* written before that is known; validate_with_ai raises nothing; and with
\* the API key missing or the AI call failed, the report written is what
\* create_basic_validation gives for the manuscript.
C25_ValidationReport ==
    /\ ~call.raised
    /\ ~call.written.isNone => Truthy(call.file)
    /\ call.pc = "returned" => (~call.written.isNone <=> Truthy(call.file))
    /\ (~call.written.isNone /\ (~Truthy(call.api_key) \/ AiCallFailed)) =>
          call.written.report = create_basic_validation(call.file.text)

\* With a key set, message.content was empty, and the report written is
\* the automated one, flagging the absolute statement of the manuscript.
C25_Witness ==
    /\ call.pc = "returned"
    /\ Truthy(call.api_key)
    /\ call.ai.raises = "IndexError"
    /\ ~call.written.isNone
    /\ call.written.report = BasicReport(<<AbsoluteIssue(Absolutes[1])>>)

\* A check of check_system increments exactly one of the two counters.
OneCounterIncremented ==
    \/ /\ call'.checks_passed = call.checks_passed + 1
       /\ call'.checks_failed = call.checks_failed
    \/ /\ call'.checks_passed = call.checks_passed
       /\ call'.checks_failed = call.checks_failed + 1

\* C26: every check of check_system increments exactly one of
\* checks_passed and checks_failed, the summary changes neither, so at the
\* summary the two add up to the 10 checks; and check_system returns False
\* exactly if more than 2 checks failed.
C26_PreflightAccounting ==
    /\ [](call.pc = TotalChecks + 1 =>
             call.checks_passed + call.checks_failed = 10)
    /\ [](call.returned => (~call.result <=> call.checks_failed > 2))
    /\ [][IF call.pc <= TotalChecks
          THEN call'.pc = call.pc + 1 /\ OneCounterIncremented
          ELSE /\ call'.checks_passed = call.checks_passed
               /\ call'.checks_failed = call.checks_failed]_vars

\* check_system has returned False with three checks failed, seven passed
\* and a warning given.
C26_Witness ==
    /\ call.returned
    /\ ~call.result
    /\ call.checks_failed = 3
    /\ call.checks_passed = 7
    /\ call.warnings # << >>

====
